---- MODULE Spec2Model ----
(***************************************************************************)
(* Model of src/Inicio.py: a Streamlit page whose script main() is run     *)
(* from top to bottom once per user interaction (a "rerun"), each session  *)
(* in a thread of its own.  A rerun is up to three steps: its start with   *)
(* the write of os.environ, its way to agent.invoke, and the return of     *)
(* that call; other sessions' steps fall between them.  What a rerun reads *)
(* from the widgets and what the external libraries answer are inputs of   *)
(* the steps; what it shows, what it calls and what it leaves in           *)
(* st.session_state and os.environ are its results.                        *)
(***************************************************************************)
EXTENDS Integers, Sequences, FiniteSets, TLC

\* ------------------------------------------------------------------ bounds
\* Longest conversation explored with one session acting.
MaxHist == 3
\* Longest conversation explored when two sessions act in one process.
MaxHistShared == 1

\* --------------------------------------------------------- program constants
\* chat['question'][:60] and len(chat['question']) > 60 (line 198).
LabelLimit == 60

\* ------------------------------------------------------------ input domains
Sessions == {"s1", "s2"}

\* os.environ before any rerun has written OPENAI_API_KEY.
Unset == "<unset>"

\* st.text_input(type="password") returns "" until the user types a key;
\* each session's user has a key of their own.
KeyOf(s) == IF s = "s1" THEN "sk-1" ELSE "sk-2"

Keys(s) == {"", KeyOf(s)}

\* st.file_uploader returns None (NoFile) or an uploaded file.  A file is its
\* name, the suffix the name ends with, what the bytes really are, and
\* whether the table they hold has a numeric column.  The second file has a
\* spreadsheet's name and comma-separated bytes.
NoFile == [name |-> "", ext |-> "", content |-> "", numeric |-> FALSE]
Files ==
    { NoFile,
      [name |-> "ventas.csv", ext |-> ".csv", content |-> "csv", numeric |-> TRUE],
      [name |-> "libro.xlsx", ext |-> ".xlsx", content |-> "csv", numeric |-> FALSE] }

\* A question text: an identifying text and its number of characters.
NoQuestion == [text |-> "", len |-> 0]
Questions ==
    { NoQuestion,
      [text |-> "q1", len |-> 2],
      [text |-> "q2 ...", len |-> 61] }

Answers == {"a1", "a2"}

\* One widget interaction per rerun: no button, the ask button, the clear one.
Buttons == {"none", "ask", "clear"}

\* ChatOpenAI(...) then create_pandas_dataframe_agent(...): both return, or
\* one of them raises.
ConstructOutcomes == {"ok", "llm_raises", "agent_raises"}

\* agent.invoke(...) returns a mapping with an "output", returns one without
\* it, or raises.
NotInvoked == [kind |-> "none", has_output |-> FALSE, output |-> "", detail |-> ""]
InvokeOutcomes ==
    { [kind |-> "returns", has_output |-> TRUE, output |-> a, detail |-> ""] : a \in Answers }
    \cup { [kind |-> "returns", has_output |-> FALSE, output |-> "", detail |-> ""],
           [kind |-> "raises", has_output |-> FALSE, output |-> "", detail |-> "column not found"] }

\* ------------------------------------------------------------------- state
VARIABLES
    session_state,   \* per session: st.session_state ('chat_history' key)
    environ,         \* os.environ["OPENAI_API_KEY"], one per process
    has_get_info_summary,  \* whether the installed pandas defines
                           \* pandas.io.formats.info.get_info_summary
    last,            \* the rerun that completed last: its inputs and what it did
    cur,             \* per session: the rerun under way in its script thread
    completed        \* per session: the (question, answer) of every ask
                     \* whose invocation returned an output since the last
                     \* press of the clear button, in order of completion

vars == <<session_state, environ, has_get_info_summary, last, cur, completed>>

\* st.session_state of a new session: no 'chat_history' key yet.
NewSessionState == [has_chat_history |-> FALSE, chat_history |-> <<>>]

\* ----------------------------------------------------------------- helpers
Msg(tag, detail) == [tag |-> tag, detail |-> detail]

Tags(out) == { out[i].tag : i \in 1..Len(out) }

Shown(out, tag) == tag \in Tags(out)

Reverse(s) == [i \in 1..Len(s) |-> s[Len(s) + 1 - i]]

\* The result of a piece of main(): what it showed, the external calls it
\* made, the session state it left, the rendered history sections, whether
\* st.rerun() ended it, and the exception that left it ("" for none).
Piece(out, calls, ss, history, rerun, raised) ==
    [out |-> out, calls |-> calls, session_state |-> ss,
     history |-> history, rerun |-> rerun, raised |-> raised]

\* ------------------------------------------------- main(): lines 10 to 232
\* Lines 11-46: page configuration, title, introduction and the sidebar with
\* the credential, model and temperature widgets.
PageHeader == <<Msg("title", ""), Msg("intro", ""), Msg("sidebar", "")>>

\* Lines 49-52: the guarded early exit on an empty credential.
MissingKey == <<Msg("warning_api_key", ""), Msg("info_api_key", "")>>

\* Lines 68-71: dispatch on the name's suffix, then parse.  read_csv parses
\* comma-separated text only, read_excel a workbook only.
ReadFile(f) ==
    LET call == IF f.ext = ".csv" THEN "pd.read_csv" ELSE "pd.read_excel"
        ok == \/ call = "pd.read_csv" /\ f.content = "csv"
              \/ call = "pd.read_excel" /\ f.content = "excel"
    IN  [call |-> call, ok |-> ok,
         df |-> [name |-> f.name, numeric |-> f.numeric],
         detail |-> IF ok THEN "" ELSE "cannot parse " \o f.name]

\* Line 95: pd.io.formats.info.get_info_summary().  The attribute lookup
\* raises AttributeError when the installed pandas does not define it.
GetInfoSummary(has_attr) ==
    IF has_attr THEN "" ELSE "module 'pandas.io.formats.info' has no attribute 'get_info_summary'"

\* Lines 73-110: the success message, the three metrics and the three tabs.
\* The statement of line 95 stands between the "Información" subheader and
\* its table; an exception there leaves the rest of the block unexecuted.
DatasetViews(df, has_attr) ==
    LET upto94 == <<Msg("success_loaded", df.name), Msg("metric_rows", ""),
                    Msg("metric_cols", ""), Msg("metric_size", ""),
                    Msg("header_preview", ""), Msg("tabs", ""),
                    Msg("dataframe_head", ""), Msg("subheader_info", "")>>
        raised == GetInfoSummary(has_attr)
        stats == IF df.numeric THEN Msg("dataframe_describe", "")
                 ELSE Msg("info_no_numeric", "")
    IN  IF raised # ""
        THEN [out |-> upto94, raised |-> raised]
        ELSE [out |-> upto94 \o <<Msg("dataframe_info", ""),
                                  Msg("subheader_stats", ""), stats>>,
              raised |-> ""]

\* Line 198: the label of a history section.
Label(q) ==
    IF q.len > LabelLimit
    THEN [text |-> q.text, chars |-> LabelLimit, ellipsis |-> TRUE]
    ELSE [text |-> q.text, chars |-> q.len, ellipsis |-> FALSE]

\* Mutant of RenderHistory: the loop runs over chat_history, not over
\* reversed(chat_history).
RenderHistory_StorageOrder(chat_history) ==
    [i \in 1..Len(chat_history) |->
        [label |-> Label(chat_history[i].question),
         question |-> chat_history[i].question,
         answer |-> chat_history[i].answer, expanded |-> (i - 1 = 0)]]

\* Lines 197-203: one expander per entry of reversed(chat_history); enumerate
\* counts from 0 and expanded=(i==0).
RenderHistory(chat_history) ==
    LET r == Reverse(chat_history)
    IN  [i \in 1..Len(r) |->
            [label |-> Label(r[i].question), question |-> r[i].question,
             answer |-> r[i].answer, expanded |-> (i - 1 = 0)]]

\* Lines 194-203: the history, when the sequence is not empty.
HistoryView(ss) ==
    IF ss.chat_history # <<>>
    THEN [out |-> <<Msg("subheader_history", "")>>,
          history |-> RenderHistory(ss.chat_history)]
    ELSE [out |-> <<>>, history |-> <<>>]

\* Mutant of InitHistory: the assignment of line 155 without its guard.
InitHistory_AlwaysResets(ss) ==
    [has_chat_history |-> TRUE, chat_history |-> <<>>]

\* Lines 154-155: lazy creation of the 'chat_history' key.
InitHistory(ss) ==
    IF ~ss.has_chat_history
    THEN [has_chat_history |-> TRUE, chat_history |-> <<>>]
    ELSE ss

\* Mutant of ClearHistory: the newest entry is dropped, not the sequence.
ClearHistory_PopsLast(ss) ==
    [has_chat_history |-> TRUE,
     chat_history |-> IF ss.chat_history = <<>> THEN <<>>
                      ELSE SubSeq(ss.chat_history, 1, Len(ss.chat_history) - 1)]

\* Lines 170-171: the clear button's assignment.
ClearHistory(ss) == [has_chat_history |-> TRUE, chat_history |-> <<>>]

\* Mutant of AppendEntry: the entry is appended twice.
AppendEntry_Twice(ss, q, a) ==
    [ss EXCEPT !.chat_history =
        @ \o <<[question |-> q, answer |-> a], [question |-> q, answer |-> a]>>]

\* Lines 181-184: chat_history.append({"question": ..., "answer": ...}).
AppendEntry(ss, q, a) ==
    [ss EXCEPT !.chat_history = Append(@, [question |-> q, answer |-> a])]

\* Mutant of AskGuard: the test of line 174 without "and user_question".
AskGuard_ButtonOnly(btn, q) == btn = "ask"

\* Line 174: if ask_button and user_question (a non-empty string is truthy).
AskGuard(btn, q) == btn = "ask" /\ q.len > 0

\* Mutant of AskQuestion: the answer is read with a default
\* (response.get("output", "")), so a result without "output" is appended
\* as an entry with an empty answer.
AskQuestion_PartialEntry(ss, q, invoke) ==
    LET spinner == <<Msg("spinner", "")>>
        failed == <<Msg("error_question", invoke.detail), Msg("hint_question", "")>>
        view == HistoryView(ss)
    IN  IF invoke.kind = "returns"
        THEN Piece(spinner, <<"agent.invoke">>,
                   AppendEntry(ss, q, invoke.output), <<>>, TRUE, "")
        ELSE Piece(spinner \o failed \o view.out, <<"agent.invoke">>,
                   ss, view.history, FALSE, "")

\* Lines 175-191: the invocation inside try/except Exception.  A raise of
\* agent.invoke, or the KeyError of response["output"], is caught at 189;
\* the entry's value is built before append is called, so a KeyError appends
\* nothing.  st.rerun() (187) leaves main() by an exception that is not an
\* Exception subclass, so line 189 does not catch it.
AskQuestion(ss, q, invoke) ==
    LET spinner == <<Msg("spinner", "")>>
        detail == IF invoke.kind = "raises" THEN invoke.detail ELSE "'output'"
        failed == <<Msg("error_question", detail), Msg("hint_question", "")>>
        view == HistoryView(ss)
    IN  IF invoke.kind = "returns" /\ invoke.has_output
        THEN Piece(spinner, <<"agent.invoke">>,
                   AppendEntry(ss, q, invoke.output), <<>>, TRUE, "")
        ELSE Piece(spinner \o failed \o view.out, <<"agent.invoke">>,
                   ss, view.history, FALSE, "")

\* Lines 150-203: the question field, the two buttons, clear, ask, history.
QuestionInterface(ss0, q, btn, invoke) ==
    LET ss == InitHistory(ss0)
        widgets == <<Msg("subheader_question", ""), Msg("text_input", q.text),
                     Msg("button_ask", ""), Msg("button_clear", "")>>
        asked == AskQuestion(ss, q, invoke)
        view == HistoryView(ss)
    IN  IF btn = "clear"
        THEN Piece(widgets, <<>>, ClearHistory(ss), <<>>, TRUE, "")
        ELSE IF AskGuard(btn, q)
        THEN [asked EXCEPT !.out = widgets \o @]
        ELSE Piece(widgets \o view.out, <<>>, ss, view.history, FALSE, "")

\* Lines 136-148: the eight numbered example questions.
Examples ==
    <<Msg("subheader_examples", "")>> \o
    [i \in 1..8 |-> Msg("example", <<"1", "2", "3", "4", "5", "6", "7", "8">>[i])]

\* Lines 205-206: str(e) of the exception a failed construction raised.
ConstructDetail(construct) ==
    IF construct = "llm_raises" THEN "client construction failed"
    ELSE IF construct = "agent_raises" THEN "agent construction failed"
    ELSE ""

\* Mutant of AgentSection: the except of line 205 also catches the exception
\* st.rerun() leaves by, and reports it as a failed initialization.
AgentSection_CatchesRerun(ss, q, btn, construct, invoke) ==
    LET head == <<Msg("header_agent", "")>>
        failure(d) == <<Msg("error_agent", d), Msg("hint_agent", "")>>
        ui == QuestionInterface(ss, q, btn, invoke)
        made == <<"ChatOpenAI", "create_pandas_dataframe_agent">>
        shown == head \o <<Msg("success_agent", "")>> \o Examples \o ui.out
    IN  IF construct = "llm_raises"
        THEN Piece(head \o failure(ConstructDetail(construct)),
                   <<"ChatOpenAI">>, ss, <<>>, FALSE, "")
        ELSE IF construct = "agent_raises"
        THEN Piece(head \o failure(ConstructDetail(construct)),
                   made, ss, <<>>, FALSE, "")
        ELSE IF ui.rerun
        THEN Piece(shown \o failure("rerun"), made \o ui.calls,
                   ui.session_state, <<>>, FALSE, "")
        ELSE [ui EXCEPT !.out = shown, !.calls = made \o @]

\* Lines 113-207: construct the client and the agent inside try/except
\* Exception; on success show the examples and the question interface.
AgentSection(ss, q, btn, construct, invoke) ==
    LET head == <<Msg("header_agent", "")>>
        failure(d) == <<Msg("error_agent", d), Msg("hint_agent", "")>>
        ui == QuestionInterface(ss, q, btn, invoke)
        made == <<"ChatOpenAI", "create_pandas_dataframe_agent">>
    IN  IF construct = "llm_raises"
        THEN Piece(head \o failure(ConstructDetail(construct)),
                   <<"ChatOpenAI">>, ss, <<>>, FALSE, "")
        ELSE IF construct = "agent_raises"
        THEN Piece(head \o failure(ConstructDetail(construct)),
                   made, ss, <<>>, FALSE, "")
        ELSE [ui EXCEPT !.out = head \o <<Msg("success_agent", "")>> \o Examples \o @,
                        !.calls = made \o @]

\* Lines 65-232: the uploaded file, or the idle guidance when there is none.
\* Everything from the parse to the history runs inside the try of line 66,
\* whose except Exception (209-211) reports a file-load error.
FileSection(ss, file, has_attr, q, btn, construct, invoke) ==
    LET read == ReadFile(file)
        views == DatasetViews(read.df, has_attr)
        agent == AgentSection(ss, q, btn, construct, invoke)
        failure(d) == <<Msg("error_file", d), Msg("hint_file", "")>>
    IN  IF file = NoFile
        THEN Piece(<<Msg("info_no_file", ""), Msg("about", "")>>,
                   <<>>, ss, <<>>, FALSE, "")
        ELSE IF ~read.ok
        THEN Piece(failure(read.detail), <<read.call>>, ss, <<>>, FALSE, "")
        ELSE IF views.raised # ""
        THEN Piece(views.out \o failure(views.raised), <<read.call>>,
                   ss, <<>>, FALSE, "")
        ELSE [agent EXCEPT !.out = views.out \o @, !.calls = <<read.call>> \o @]

\* Mutant of SetEnviron: a rerun with an empty credential removes the
\* variable.
SetEnviron_ClearsOnEmpty(env, key) == IF key = "" THEN Unset ELSE key

\* Line 55: os.environ["OPENAI_API_KEY"] = openai_api_key, reached only with
\* a non-empty credential; no statement of main() removes the variable.
SetEnviron(env, key) == IF key = "" THEN env ELSE key

\* Mutant of main: the credential is not checked before the file section.
main_KeyCheckedLate(ss, key, file, has_attr, q, btn, construct, invoke) ==
    LET rest == FileSection(ss, file, has_attr, q, btn, construct, invoke)
    IN  [rest EXCEPT !.out = PageHeader \o <<Msg("header_upload", "")>> \o @]

\* main() as a whole: one rerun.
main(ss, key, file, has_attr, q, btn, construct, invoke) ==
    LET rest == FileSection(ss, file, has_attr, q, btn, construct, invoke)
    IN  IF key = ""
        THEN Piece(PageHeader \o MissingKey, <<>>, ss, <<>>, FALSE, "")
        ELSE [rest EXCEPT !.out = PageHeader \o <<Msg("header_upload", "")>> \o @]

\* ---------------------------------------------------------------- actions
\* How far a rerun gets: a widget or a library outcome is an input of the
\* rerun only if main() reaches the statement that reads it.
ReachesUpload(key) == key # ""

ReachesAgent(key, file, has_attr) ==
    /\ ReachesUpload(key)
    /\ file # NoFile
    /\ ReadFile(file).ok
    /\ GetInfoSummary(has_attr) = ""

ReachesQuestions(key, file, has_attr, construct) ==
    ReachesAgent(key, file, has_attr) /\ construct = "ok"

ReachesInvoke(key, file, has_attr, construct, q, btn) ==
    /\ ReachesQuestions(key, file, has_attr, construct)
    /\ btn # "clear"
    /\ AskGuard(btn, q)

\* The values each input of a rerun can take.  The uploader holds whatever
\* the user uploaded in this or an earlier rerun; an outcome or a widget of
\* a statement the rerun never reaches takes its placeholder.
ConstructsRead(key, file, has_attr) ==
    IF ReachesAgent(key, file, has_attr) THEN ConstructOutcomes ELSE {"not_called"}

QuestionsRead(key, file, has_attr, construct) ==
    IF ReachesQuestions(key, file, has_attr, construct) THEN Questions ELSE {NoQuestion}

ButtonsRead(key, file, has_attr, construct) ==
    IF ReachesQuestions(key, file, has_attr, construct) THEN Buttons ELSE {"none"}

InvokesRead(key, file, has_attr, construct, q, btn) ==
    IF ReachesInvoke(key, file, has_attr, construct, q, btn)
    THEN InvokeOutcomes ELSE {NotInvoked}

\* What st.rerun() was called for, kept for the rerun it forces: the button
\* path (clear at 172, ask at 187), the session state that rerun started
\* from, and what agent.invoke returned in it.
NoCause == [by |-> "", before |-> NewSessionState, invoke |-> NotInvoked]

CauseOf(r) ==
    [by |-> IF r.button = "clear" THEN "clear" ELSE "ask",
     before |-> r.before, invoke |-> r.invoke]

\* A session's script thread with no rerun under way.  pc is where the
\* thread stands: "idle", "begun" (line 55 done), "invoking" (inside
\* agent.invoke, line 178), "rerun" (st.rerun() called, rerun to come).
Idle ==
    [pc |-> "idle", forced |-> FALSE, cause |-> NoCause,
     key |-> "", file |-> NoFile, question |-> NoQuestion, button |-> "none",
     construct |-> "not_called", invoke |-> NotInvoked,
     before |-> NewSessionState, environ_before |-> Unset]

\* Before any rerun has completed.
NoRun ==
    [session |-> "", forced |-> FALSE, cause |-> NoCause,
     key |-> "", file |-> NoFile, question |-> NoQuestion, button |-> "none",
     construct |-> "not_called", invoke |-> NotInvoked,
     before |-> NewSessionState, environ_before |-> Unset,
     out |-> <<>>, calls |-> <<>>, history |-> <<>>, rerun |-> FALSE]

\* The log of completed asks, kept from the rerun's inputs alone.
Completion(log, reached, q, btn, invoke) ==
    IF reached /\ btn = "clear" THEN <<>>
    ELSE IF invoke.kind = "returns" /\ invoke.has_output
    THEN Append(log, [question |-> q, answer |-> invoke.output])
    ELSE log

\* The thread of a session whose rerun r ended in st.rerun(): the widget
\* values stay for the rerun to come.
Pending(r, invoke, log) ==
    IF log
    THEN [r EXCEPT !.pc = "rerun", !.invoke = invoke]
    ELSE [Idle EXCEPT !.pc = "rerun", !.key = r.key, !.file = r.file,
                      !.question = r.question]

\* The end of session s's rerun r, whose invocation (if any) gave invoke:
\* main() has run to its last statement or to st.rerun().  What the rerun
\* did apart from line 55 is session-local, and is committed here.  log
\* says whether the records of the rerun (last, completed, and the fields
\* of cur that only feed them) are kept.
Complete(s, r, invoke, log) ==
    LET res == main(session_state[s], r.key, r.file, has_get_info_summary,
                    r.question, r.button, r.construct, invoke)
        reached == ReachesQuestions(r.key, r.file, has_get_info_summary, r.construct)
    IN  /\ session_state' = [session_state EXCEPT ![s] = res.session_state]
        /\ last' = IF ~log THEN last ELSE
                   [session |-> s, forced |-> r.forced, cause |-> r.cause,
                    key |-> r.key, file |-> r.file, question |-> r.question,
                    button |-> r.button, construct |-> r.construct,
                    invoke |-> invoke, before |-> r.before,
                    environ_before |-> r.environ_before,
                    out |-> res.out, calls |-> res.calls,
                    history |-> res.history, rerun |-> res.rerun]
        /\ completed' = IF ~log THEN completed ELSE
                        [completed EXCEPT
                            ![s] = Completion(@, reached, r.question, r.button, invoke)]
        /\ cur' = [cur EXCEPT ![s] = IF res.rerun THEN Pending(r, invoke, log)
                                     ELSE Idle]

\* A widget interaction of session s starts main() in the session's thread:
\* lines 10-55, the credential read and, if it is not empty, written to
\* os.environ with no lock held.  With an empty credential main() returns
\* at line 52.
Begin(s, log) ==
    /\ cur[s].pc = "idle"
    /\ \E key \in Keys(s), file \in Files :
        LET r == IF log
                 THEN [Idle EXCEPT !.key = key, !.file = file,
                                   !.before = session_state[s],
                                   !.environ_before = environ]
                 ELSE [Idle EXCEPT !.key = key, !.file = file]
        IN  /\ environ' = SetEnviron(environ, key)
            /\ IF ReachesUpload(key)
               THEN /\ cur' = [cur EXCEPT ![s] = [r EXCEPT !.pc = "begun"]]
                    /\ UNCHANGED <<session_state, last, completed>>
               ELSE Complete(s, r, NotInvoked, log)
    /\ UNCHANGED has_get_info_summary

\* st.rerun() (172, 187): the framework starts main() again in the same
\* session's thread; the widgets keep their values and both buttons read
\* False.  Other sessions' threads may have run since st.rerun() was called.
BeginForced(s, log) ==
    /\ cur[s].pc = "rerun"
    /\ environ' = SetEnviron(environ, cur[s].key)
    /\ cur' = [cur EXCEPT ![s] =
                 IF log
                 THEN [Idle EXCEPT !.pc = "begun", !.forced = TRUE,
                                   !.cause = CauseOf(cur[s]),
                                   !.key = cur[s].key, !.file = cur[s].file,
                                   !.question = cur[s].question,
                                   !.before = session_state[s],
                                   !.environ_before = environ]
                 ELSE [Idle EXCEPT !.pc = "begun", !.forced = TRUE,
                                   !.key = cur[s].key, !.file = cur[s].file,
                                   !.question = cur[s].question]]
    /\ UNCHANGED <<session_state, last, completed, has_get_info_summary>>

\* Lines 57-178: the upload, the parse, the views, the construction and the
\* question interface, up to the call of agent.invoke if line 174 lets it
\* through and to the end of main() otherwise.
Proceed(s, log) ==
    /\ cur[s].pc = "begun"
    /\ \E construct \in ConstructsRead(cur[s].key, cur[s].file, has_get_info_summary) :
       \E q \in IF cur[s].forced THEN {cur[s].question}
                ELSE QuestionsRead(cur[s].key, cur[s].file, has_get_info_summary, construct) :
       \E btn \in IF cur[s].forced THEN {"none"}
                  ELSE ButtonsRead(cur[s].key, cur[s].file, has_get_info_summary, construct) :
        LET r == [cur[s] EXCEPT !.construct = construct, !.question = q, !.button = btn]
        IN  IF ReachesInvoke(r.key, r.file, has_get_info_summary, construct, q, btn)
            THEN /\ cur' = [cur EXCEPT ![s] = [r EXCEPT !.pc = "invoking"]]
                 /\ session_state' = [session_state EXCEPT ![s] = InitHistory(@)]
                 /\ UNCHANGED <<last, completed>>
            ELSE Complete(s, r, NotInvoked, log)
    /\ UNCHANGED <<environ, has_get_info_summary>>

\* Lines 178-203: agent.invoke returns or raises, and main() goes on to the
\* append and st.rerun(), or to the error and the history.  cap bounds the
\* conversation's length.
Return(s, cap, log) ==
    /\ cur[s].pc = "invoking"
    /\ \E invoke \in InvokeOutcomes :
        /\ (invoke.kind = "returns" /\ invoke.has_output)
              => Len(session_state[s].chat_history) < cap
        /\ Complete(s, cur[s], invoke, log)
    /\ UNCHANGED <<environ, has_get_info_summary>>

Init ==
    /\ session_state = [s \in Sessions |-> NewSessionState]
    /\ environ = Unset
    /\ has_get_info_summary \in BOOLEAN
    /\ last = NoRun
    /\ cur = [s \in Sessions |-> Idle]
    /\ completed = [s \in Sessions |-> <<>>]

\* One session acting, every rerun recorded.
Next ==
    \E s \in {"s1"} :
        \/ Begin(s, TRUE)
        \/ BeginForced(s, TRUE)
        \/ Proceed(s, TRUE)
        \/ Return(s, MaxHist, TRUE)

Spec == Init /\ [][Next]_vars

\* Two sessions of one process acting, one thread each: their reruns
\* interleave at line 55, at agent.invoke and at st.rerun().  No record of
\* the reruns is kept: the state is the program's alone.
NextShared ==
    \E s \in Sessions :
        \/ Begin(s, FALSE)
        \/ BeginForced(s, FALSE)
        \/ Proceed(s, FALSE)
        \/ Return(s, MaxHistShared, FALSE)

SpecShared == Init /\ [][NextShared]_vars

\* ------------------------------------------------- reading the last rerun
\* Some rerun has completed, and its session has not started the next one.
Ran == last.session # "" /\ cur[last.session].pc \in {"idle", "rerun"}

\* The conversation sequence the last rerun started from and the one it left.
Before == last.before.chat_history

After == session_state[last.session].chat_history

\* The last rerun's agent.invoke returned a result with an "output".
AskReturned == last.invoke.kind = "returns" /\ last.invoke.has_output

\* The last rerun's agent.invoke raised, or returned a result with no "output".
AskFailed ==
    \/ last.invoke.kind = "raises"
    \/ last.invoke.kind = "returns" /\ ~last.invoke.has_output

\* The last rerun's construction of the client or of the agent raised.
ConstructFailed == last.construct \in {"llm_raises", "agent_raises"}

\* The last rerun got to the question field and the two buttons.
AtQuestions == last.construct = "ok"

\* The number of agent invocations of the last rerun.
InvokeCalls == Cardinality({ i \in 1..Len(last.calls) : last.calls[i] = "agent.invoke" })

Has(m) == \E i \in 1..Len(last.out) : last.out[i] = m

ShownLast(tag) == Shown(last.out, tag)

\* sections shows the entries of seq newest first, the first section alone
\* expanded.
NewestFirst(sections, seq) ==
    /\ Len(sections) = Len(seq)
    /\ \A i \in 1..Len(seq) :
        /\ sections[i].question = seq[Len(seq) + 1 - i].question
        /\ sections[i].answer = seq[Len(seq) + 1 - i].answer
        /\ sections[i].expanded <=> (i = 1)

\* ------------------------------------------------------------------ claims
\* C1: with a credential, a file that loads and an agent that is built, an
\* ask with a non-empty question q whose invocation returns output a leaves
\* the conversation as it was plus the one entry (q, a) at its end, after
\* exactly one invocation, and forces a rerun; when the forced rerun is over
\* the conversation is still the prior one plus that single entry, and the
\* forced rerun invoked nothing.
C1_AskAppendsOneEntry ==
    Ran =>
      /\ (/\ ~last.forced /\ last.key # "" /\ AtQuestions
          /\ last.button = "ask" /\ last.question.len > 0 /\ AskReturned)
         => /\ After = Append(Before, [question |-> last.question,
                                       answer |-> last.invoke.output])
            /\ Len(After) = Len(Before) + 1
            /\ InvokeCalls = 1
            /\ last.rerun
      /\ (last.forced /\ last.cause.by = "ask")
         => /\ After = Append(last.cause.before.chat_history,
                              [question |-> last.question,
                               answer |-> last.cause.invoke.output])
            /\ Len(After) = Len(last.cause.before.chat_history) + 1
            /\ InvokeCalls = 0
            /\ ~last.rerun

\* The rerun forced by an answered question is over, and the conversation
\* already held an entry before that question.
C1_Witness ==
    /\ Ran /\ last.forced /\ last.cause.by = "ask"
    /\ Len(last.cause.before.chat_history) >= 1
    /\ Len(After) = Len(last.cause.before.chat_history) + 1

\* C2: when the invocation of an ask raises or returns no "output", the
\* conversation is what it was, the error with the failure's detail and the
\* rephrase hint are shown, no rerun is forced, and the history is rendered
\* in that same rerun.
C2_FailedAskLeavesHistory ==
    (Ran /\ AskFailed) =>
      /\ After = Before
      /\ Has(Msg("error_question",
                 IF last.invoke.kind = "raises" THEN last.invoke.detail
                 ELSE "'output'"))
      /\ ShownLast("hint_question")
      /\ ~last.rerun
      /\ NewestFirst(last.history, Before)
      /\ (Before # <<>>) => ShownLast("subheader_history")

\* An invocation returned a result without "output" while the conversation
\* held an entry.
C2_Witness ==
    /\ Ran /\ last.invoke.kind = "returns" /\ ~last.invoke.has_output
    /\ Before # <<>>
    /\ Len(last.history) = Len(Before)

\* C3: the agent is invoked in a rerun only if the ask button was pressed in
\* it and the question is not empty; an ask with an empty question invokes
\* nothing and leaves the conversation as it was.
C3_InvokeOnlyOnAskWithQuestion ==
    Ran =>
      /\ (InvokeCalls > 0) => (last.button = "ask" /\ last.question.len > 0)
      /\ (last.button = "ask" /\ last.question.len = 0)
         => (InvokeCalls = 0 /\ After = Before)

\* The ask button was pressed on an empty question field, with a
\* conversation to keep.
C3_Witness ==
    /\ Ran /\ AtQuestions /\ last.button = "ask" /\ last.question = NoQuestion
    /\ Before # <<>> /\ After = Before

\* C4: a press of the clear button in a rerun that reaches the question
\* interface empties the conversation whatever it held and whatever the
\* question field holds, forces a rerun, and invokes and appends nothing;
\* the forced rerun shows no history.
C4_ClearEmptiesHistory ==
    Ran =>
      /\ (AtQuestions /\ last.button = "clear")
         => /\ After = <<>>
            /\ InvokeCalls = 0
            /\ last.rerun
      /\ (last.forced /\ last.cause.by = "clear")
         => /\ After = <<>>
            /\ last.history = <<>>
            /\ ~ShownLast("subheader_history")

\* The rerun forced by clear is over; the conversation held two entries and
\* the question field a question when clear was pressed.
C4_Witness ==
    /\ Ran /\ last.forced /\ last.cause.by = "clear"
    /\ Len(last.cause.before.chat_history) >= 2
    /\ last.question.len > 0
    /\ AtQuestions

\* C5: a rerun with an empty credential parses no file, constructs no client
\* or agent, invokes nothing, and shows after the page header only the
\* warning and the pointer, whatever was uploaded and whatever the
\* conversation holds.
C5_EmptyCredentialStops ==
    (Ran /\ last.key = "") =>
      /\ last.calls = <<>>
      /\ last.out = <<Msg("title", ""), Msg("intro", ""), Msg("sidebar", ""),
                      Msg("warning_api_key", ""), Msg("info_api_key", "")>>
      /\ last.history = <<>>

\* A rerun with an empty credential while a well-formed file is uploaded and
\* the conversation holds an entry.
C5_Witness ==
    /\ Ran /\ last.key = ""
    /\ last.file.content = "csv" /\ last.file.ext = ".csv"
    /\ Before # <<>>

\* C6: a rerun changes the conversation only by appending one entry on an
\* answered ask or by emptying it on clear; an empty credential, no file, a
\* file that does not load, a failed construction, a failed ask, an ask with
\* an empty question and a rerun with no button pressed all leave the
\* sequence and its entries as they were (the lazy creation of the empty
\* sequence aside).
C6_OnlyAppendAndClearChange ==
    Ran =>
      /\ \/ After = Before
         \/ /\ AskReturned
            /\ After = Append(Before, [question |-> last.question,
                                       answer |-> last.invoke.output])
         \/ /\ AtQuestions /\ last.button = "clear"
            /\ After = <<>>
      /\ (~AskReturned /\ last.button # "clear") => After = Before
      /\ last.before.has_chat_history
            => session_state[last.session].has_chat_history

\* A rerun whose uploaded file did not load, with a conversation of two
\* entries to keep.
C6_Witness ==
    /\ Ran /\ last.key # "" /\ last.file # NoFile /\ ShownLast("error_file")
    /\ Len(Before) >= 2 /\ After = Before

\* C7: with a credential and an uploaded file that parses, the summary and
\* the three views cannot fail: no file-load error is shown and the rerun
\* goes on to construct the client; the file-load error and its hint are
\* shown only when the parse fails.
C7_ViewsNeverFail ==
    (Ran /\ last.key # "" /\ last.file # NoFile) =>
      IF ReadFile(last.file).ok
      THEN /\ ~ShownLast("error_file")
           /\ ~ShownLast("hint_file")
           /\ \E i \in 1..Len(last.calls) : last.calls[i] = "ChatOpenAI"
      ELSE ShownLast("error_file") /\ ShownLast("hint_file")

\* C8: the entries are stored in the order in which their asks completed
\* since the last clear, and whenever a rerun renders the history its
\* sections are the stored entries newest first with only the first
\* expanded; an empty sequence renders no history.
C8_HistoryNewestFirst ==
    Ran =>
      /\ After = completed[last.session]
      /\ IF AtQuestions /\ ~last.rerun
         THEN /\ NewestFirst(last.history, After)
              /\ ShownLast("subheader_history") <=> (After # <<>>)
         ELSE last.history = <<>> /\ ~ShownLast("subheader_history")

\* A rendered history of two different entries.
C8_Witness ==
    /\ Ran /\ AtQuestions /\ ~last.rerun
    /\ Len(last.history) >= 2
    /\ last.history[1].question # last.history[2].question
    /\ last.history[1].answer # last.history[2].answer

\* C9: when the construction of the client or of the agent fails, the
\* agent-initialization error with the failure's detail and its hint are
\* shown and nothing of the question workflow happens: no examples, no
\* question field or buttons, no invocation, no history, and the session
\* state is untouched; the agent-initialization error is shown only when
\* the construction failed.
C9_ConstructFailureStops ==
    Ran =>
      /\ ConstructFailed
         => /\ Has(Msg("error_agent", ConstructDetail(last.construct)))
            /\ ShownLast("hint_agent")
            /\ Tags(last.out) \cap
                 {"success_agent", "subheader_examples", "example",
                  "subheader_question", "text_input", "button_ask",
                  "button_clear", "spinner", "error_question",
                  "subheader_history"} = {}
            /\ InvokeCalls = 0
            /\ last.history = <<>>
            /\ session_state[last.session] = last.before
            /\ ~last.rerun
      /\ (ShownLast("error_agent") \/ ShownLast("hint_agent")) => ConstructFailed

\* The client was built and the agent's construction failed, with a
\* conversation that is then not rendered.
C9_Witness ==
    /\ Ran /\ last.construct = "agent_raises"
    /\ Before # <<>>
    /\ last.calls = <<"pd.read_csv", "ChatOpenAI", "create_pandas_dataframe_agent">>

\* A rerun of session t starts in this step.
Starts(t) == cur[t].pc \in {"idle", "rerun"} /\ cur'[t].pc = "begun"

\* C10, as stated: the conversation is the only state carried from a rerun
\* to a later one, of the same session or of another: whatever else a rerun
\* wrote - the credential among it - is not there when a rerun starts.
C10_NothingElseCarried ==
    [][ \A t \in Sessions : Starts(t) => environ = Unset ]_vars

\* C10, amended: the conversation is the only session-scoped state carried
\* between reruns, and it changes only in a step of its own session's
\* rerun; the credential of every rerun that has one is written at the
\* rerun's start to the process-wide OPENAI_API_KEY, which nothing else
\* writes and nothing removes: it stays for every session until another
\* rerun's start writes over it, and a rerun with an empty credential
\* leaves it as it found it.
C10_OnlyCredentialShared ==
    [][ /\ \A t \in Sessions :
            session_state'[t] # session_state[t]
               => cur[t].pc \in {"begun", "invoking"}
        /\ \A t \in Sessions :
            Starts(t) => (cur'[t].key = KeyOf(t) /\ environ' = KeyOf(t))
        /\ environ' # environ => \E t \in Sessions : Starts(t)
        /\ environ # Unset => environ' # Unset ]_vars

\* The first session's ask has been answered and its entry stored, its
\* forced rerun is still to come, and the environment holds the second
\* session's credential, written while the first waited in agent.invoke or
\* after it.
C10_Witness ==
    /\ cur["s1"].pc = "rerun" /\ cur["s1"].key = KeyOf("s1")
    /\ session_state["s1"].chat_history # <<>>
    /\ cur["s2"].pc = "idle"
    /\ session_state["s2"].chat_history = <<>>
    /\ environ = KeyOf("s2")

====
